---- MODULE Spec2Model ----
(***************************************************************************)
(* EEG preprocessing pipeline of 01_eeg_preprocessing/preprocessing_utils: *)
(* epoching (segmentation and per-condition subsampling), mvnn (whitening) *)
(* and save_prepr (session merge, shuffling and saving).                   *)
(*                                                                         *)
(* A tensor is a record [shape, rows]: shape is the numpy shape            *)
(* <<conditions, repetitions, channels, times>> and rows[i][j] is one      *)
(* epoch.  An epoch is [id, ev, x]: x is its channels x times matrix; id   *)
(* (partition, session, index of the event in the session) and ev (the     *)
(* marker of the event it was cut at) are history fields the program does  *)
(* not store, kept to state where each repetition ends up.                 *)
(*                                                                         *)
(* The channel selection and the baseline correction act inside one epoch  *)
(* and are taken as done: x is the epoch over the NCh selected channels.   *)
(* ch_names and times are passed through unchanged and are left out.      *)
(*                                                                         *)
(* State, per run r: pc[r] is the call the run has reached, err[r] the     *)
(* exception that ended it, rng[r] the state of numpy's global generator,  *)
(* epoched_* / img_conditions_* / whitened_* the values returned by        *)
(* epoching and mvnn, test_file / train_file the two output files.         *)
(* resampled[r] records for which sessions epochs.resample was called and  *)
(* choices[r] the outputs of every shuffle, in call order.                 *)
(***************************************************************************)
EXTENDS Integers, Sequences, FiniteSets, TLC

VARIABLES args, raw, sigma_oracle, rng, pc, err,
          epoched_test, img_conditions_test,
          epoched_train, img_conditions_train,
          whitened_test, whitened_train,
          test_file, train_file, resampled, choices

vars == <<args, raw, sigma_oracle, rng, pc, err,
          epoched_test, img_conditions_test,
          epoched_train, img_conditions_train,
          whitened_test, whitened_train,
          test_file, train_file, resampled, choices>>

(* ------------------------------ bounds -------------------------------- *)
\* largest args.n_ses
MaxSes == 2
\* a condition has at most cap + MaxExtra events in one session
MaxExtra == 1
\* channels left after the channel selection
NCh == 2

(* ------------------------- program constants --------------------------- *)
Seed == 20200220
TargetMarker == 99999
MaxRepTest == 20
MaxRepTrain == 2
ResampleBelow == 1000

\* the two executions of the pipeline that are compared for determinism
Runs == {1, 2}
Partitions == {"test", "training"}

(* ------------------------------ helpers -------------------------------- *)
\* F applied to the value of e (a local name for an intermediate result)
With(e, F(_)) == F(e)

Min(a, b) == IF a < b THEN a ELSE b

Range(f) == {f[i] : i \in DOMAIN f}

\* the elements of a finite set of integers in ascending order
SortSet(S) ==
    [i \in 1..Cardinality(S) |->
        CHOOSE x \in S : Cardinality({y \in S : y < x}) = i - 1]

\* np.unique: the sorted distinct values of a vector
np_unique(v) == SortSet(Range(v))

\* np.where(v == x)[0]: the ascending positions (1-based here) holding x
np_where_eq(v, x) == SortSet({i \in DOMAIN v : v[i] = x})

\* a[idx] along the first axis
Take(a, idx) == [j \in 1..Len(idx) |-> a[idx[j]]]

\* a[:n]
Head_n(a, n) == SubSeq(a, 1, Min(n, Len(a)))

(* ------------------------ the global numpy RNG ------------------------- *)
\* One draw.  The Mersenne Twister is modelled by a small multiplicative
\* congruential generator: what matters is that the next value is a
\* function of the state.
NextRng(x) == (x * 75) % 65537

\* np.random.seed(seed=20200220)
NoSeedRng(old) == old
np_random_seed(old) == Seed % 65537

Swap(p, i, j) == [p EXCEPT ![i] = p[j], ![j] = p[i]]

RECURSIVE FisherYates(_, _, _)
\* RandomState.shuffle: for i = n .. 2, swap p[i] with p[j], j drawn in 1..i
FisherYates(p, i, x) ==
    IF i <= 1 THEN [perm |-> p, rng |-> x]
    ELSE FisherYates(Swap(p, i, (NextRng(x) % i) + 1), i - 1, NextRng(x))

\* sklearn.utils.shuffle(a): a[indices] for a random permutation of the
\* indices, drawn from the global generator (random_state=None)
SampleWithReplacement(a, x) ==
    [out |-> [k \in 1..Len(a) |-> a[((NextRng(x) + k * k) % Len(a)) + 1]],
     rng |-> NextRng(x)]
shuffle(a, x) ==
    With(FisherYates([k \in 1..Len(a) |-> k], Len(a), x),
         LAMBDA fy : [out |-> Take(a, fy.perm), rng |-> fy.rng])

(* --------------------------- the recordings ---------------------------- *)
\* number of time points of an epoch cut from tmin=-.2 to tmax=.8 at rate
\* sfreq (one model time point per 500 Hz, both ends included)
NTimes(sfreq) == sfreq \div 500 + 1

\* the signal of channel c at time point t of the epoch cut at event k of
\* session s of partition part (the content of the recording: an input)
Sample(part, s, k, c, t) ==
    (((IF part = "test" THEN 1 ELSE 2) + s + 2 * k + 3 * c + t) % 5) - 2

\* mne.find_events(raw, stim_channel='stim'): rows (sample, marker)
find_events(rec) ==
    [k \in 1..Len(rec.stim) |-> [sample |-> k, marker |-> rec.stim[k]]]

\* np.delete(events, idx, 0)
np_delete(events, idx) == Take(events, SortSet(DOMAIN events \ Range(idx)))

\* idx_target = np.where(events[:,2] == 99999)[0]; np.delete(events, idx_target, 0)
KeepTargets(events) == events
RejectTargets(events) ==
    np_delete(events, np_where_eq([k \in DOMAIN events |-> events[k].marker],
                                  TargetMarker))

\* mne.Epochs(raw, events, tmin=-.2, tmax=.8, baseline=(None,0), preload=True):
\* one epoch per event (every event lies inside the recording), and the
\* library's error "No desired events found." when there is no event at all.
EpochsAllowEmpty(part, s, rec, events) ==
    [ok |-> TRUE,
     sfreq |-> rec.sfreq,
     events |-> events,
     data |-> [k \in 1..Len(events) |->
                 [id |-> <<part, s, events[k].sample>>,
                  ev |-> events[k].marker,
                  x  |-> [c \in 1..NCh |-> [t \in 1..NTimes(rec.sfreq) |->
                             Sample(part, s, events[k].sample, c, t)]]]]]
mne_Epochs(part, s, rec, events) ==
    IF Len(events) = 0
    THEN [ok |-> FALSE, sfreq |-> rec.sfreq, events |-> events, data |-> <<>>]
    ELSE EpochsAllowEmpty(part, s, rec, events)

\* the time point of the recording kept as time point j of n after resampling
ResamplePick(j, nold, nnew) ==
    IF nnew <= 1 THEN 1
    ELSE Min(nold, 1 + ((j - 1) * (nold - 1)) \div (nnew - 1))

\* epochs.resample(sfreq): only the time axis changes; the resampler is a
\* collaborator, modelled as picking evenly spaced time points
epochs_resample(epochs, sfreq) ==
    [epochs EXCEPT
       !.sfreq = sfreq,
       !.data = [k \in DOMAIN epochs.data |->
                   [epochs.data[k] EXCEPT
                      !.x = [c \in 1..NCh |-> [j \in 1..NTimes(sfreq) |->
                                epochs.data[k].x[c][ResamplePick(j,
                                    NTimes(epochs.sfreq), NTimes(sfreq))]]]]]]

\* if args.sfreq < 1000:
ShouldResample(a, rec) == a.sfreq < ResampleBelow

(* ------------------------------ epoching ------------------------------- *)
NoTensor == [shape |-> <<0, 0, 0, 0>>, rows |-> <<>>]

\* max_rep
MaxRep(part) == IF part = "test" THEN MaxRepTest ELSE MaxRepTrain

\* dst[i] = src for a row of n repetitions: numpy copies src when it has n
\* repetitions, repeats it when it has exactly one (broadcasting), and raises
\* ValueError otherwise
AssignRow(n, src) ==
    IF Len(src) = n THEN [ok |-> TRUE, row |-> src]
    ELSE IF Len(src) = 1 THEN [ok |-> TRUE, row |-> [j \in 1..n |-> src[1]]]
    ELSE [ok |-> FALSE, row |-> <<>>]

RECURSIVE SortRows(_, _, _, _, _)
\* for i in range(len(img_cond)): the rows of sorted_data, the generator
\* state after them and the indices chosen for each condition
SortRows(part, data, events, img_cond, acc) ==
    IF Len(acc.rows) >= Len(img_cond) \/ ~acc.ok THEN acc
    ELSE SortRows(part, data, events, img_cond,
           With(shuffle(np_where_eq(events, img_cond[Len(acc.rows) + 1]), acc.rng),
                LAMBDA sh :
           With(Head_n(sh.out, MaxRep(part)), LAMBDA idx :
           With(AssignRow(MaxRep(part), Take(data, idx)), LAMBDA asg :
                [ok    |-> asg.ok,
                 rows  |-> IF asg.ok THEN Append(acc.rows, asg.row) ELSE acc.rows,
                 rng   |-> sh.rng,
                 picks |-> Append(acc.picks, idx)]))))

\* the body of the session loop of epoching for session s, entered with the
\* generator in state x
EpochingSession(a, part, s, rec, x) ==
    With(mne_Epochs(part, s, rec, RejectTargets(find_events(rec))), LAMBDA ep0 :
    IF ~ep0.ok
    THEN [err |-> "RuntimeError", resampled |-> <<>>, rng |-> x,
          picks |-> <<>>, img_cond |-> <<>>, sorted_data |-> NoTensor]
    ELSE
    With(IF ShouldResample(a, rec) THEN epochs_resample(ep0, a.sfreq) ELSE ep0,
         LAMBDA epochs :
    With([k \in DOMAIN epochs.events |-> epochs.events[k].marker], LAMBDA events :
    With(np_unique(events), LAMBDA img_cond :
    With(SortRows(part, epochs.data, events, img_cond,
                  [ok |-> TRUE, rows |-> <<>>, rng |-> x, picks |-> <<>>]),
         LAMBDA sorted :
         [err |-> IF sorted.ok THEN "none" ELSE "ValueError",
          resampled |-> <<ShouldResample(a, rec)>>,
          rng |-> sorted.rng,
          picks |-> sorted.picks,
          img_cond |-> img_cond,
          sorted_data |-> [shape |-> <<Len(img_cond), MaxRep(part), NCh,
                                       NTimes(epochs.sfreq)>>,
                           rows  |-> sorted.rows]])))))

RECURSIVE EpochingLoop(_, _, _, _)
\* for s in range(args.n_ses): stops at the first session that raises
EpochingLoop(a, part, recs, acc) ==
    IF acc.err # "none" \/ Len(acc.epoched_data) >= a.n_ses THEN acc
    ELSE EpochingLoop(a, part, recs,
           With(EpochingSession(a, part, Len(acc.epoched_data) + 1,
                                recs[Len(acc.epoched_data) + 1], acc.rng),
                LAMBDA one :
                [err |-> one.err,
                 rng |-> one.rng,
                 resampled |-> acc.resampled \o one.resampled,
                 picks |-> IF one.err = "RuntimeError" THEN acc.picks
                           ELSE Append(acc.picks, one.picks),
                 epoched_data |-> IF one.err = "none"
                                  THEN Append(acc.epoched_data, one.sorted_data)
                                  ELSE acc.epoched_data,
                 img_conditions |-> IF one.err = "none"
                                    THEN Append(acc.img_conditions, one.img_cond)
                                    ELSE acc.img_conditions]))

\* epoching(args, data_part): the generator is seeded, then the sessions are
\* processed in order
epoching(a, part, recs, x) ==
    EpochingLoop(a, part, recs,
        [err |-> "none", rng |-> np_random_seed(x), resampled |-> <<>>,
         picks |-> <<>>, epoched_data |-> <<>>, img_conditions |-> <<>>])

(* -------------------------------- mvnn --------------------------------- *)
RECURSIVE Dot(_, _, _, _)
\* sum over k <= n of A[i][k] * B[k][j]
Dot(A, B, ij, n) ==
    IF n = 0 THEN 0
    ELSE A[ij[1]][n] * B[n][ij[2]] + Dot(A, B, ij, n - 1)

\* A @ B
MatMul(A, B) ==
    [i \in 1..Len(A) |-> [j \in 1..Len(B[1]) |-> Dot(A, B, <<i, j>>, Len(B))]]

\* m.swapaxes(0, 1) of one matrix
swapaxes(m) == [j \in 1..Len(m[1]) |-> [i \in 1..Len(m) |-> m[i][j]]]

RECURSIVE Flatten(_)
\* np.reshape(t, (-1, channels, times)): the epochs in row-major order
Flatten(rows) ==
    IF Len(rows) = 0 THEN <<>> ELSE rows[1] \o Flatten(Tail(rows))

\* np.reshape(flat, shape): rows of shape[2] epochs each
Unflatten(flat, shape) ==
    [i \in 1..shape[1] |-> SubSeq(flat, (i - 1) * shape[2] + 1, i * shape[2])]

\* np.reshape((np.reshape(t, (-1, ch, times)).swapaxes(1, 2) @ sigma_inv)
\*            .swapaxes(1, 2), t.shape)
WhitenNoSwapBack(t, sigma_inv) ==
    [shape |-> t.shape,
     rows  |-> Unflatten(
                 With(Flatten(t.rows), LAMBDA flat :
                      [n \in 1..Len(flat) |->
                         [flat[n] EXCEPT
                            !.x = MatMul(swapaxes(flat[n].x), sigma_inv)]]),
                 t.shape)]
Whiten(t, sigma_inv) ==
    [shape |-> t.shape,
     rows  |-> Unflatten(
                 With(Flatten(t.rows), LAMBDA flat :
                      [n \in 1..Len(flat) |->
                         [flat[n] EXCEPT
                            !.x = swapaxes(MatMul(swapaxes(flat[n].x), sigma_inv))]]),
                 t.shape)]

\* sigma_inv of session s: scipy.linalg.fractional_matrix_power(sigma_tot, -0.5)
\* of the shrinkage covariances averaged over conditions and partitions.
\* Both are collaborators computing on reals: the matrix is an unknown
\* function of the session (and of args.mvnn_dim), fixed by sigma_oracle.
SigmaInv(a, oracle, s) == oracle[a.mvnn_dim][s]

\* mvnn(args, epoched_test, epoched_train)
mvnn(a, oracle, e_test, e_train) ==
    [whitened_test  |-> [s \in 1..a.n_ses |->
                            Whiten(e_test[s], SigmaInv(a, oracle, s))],
     whitened_train |-> [s \in 1..a.n_ses |->
                            Whiten(e_train[s], SigmaInv(a, oracle, s))]]

(* ------------------------------ save_prepr ----------------------------- *)
\* np.append(a, b, 1): the other three axes must agree, else ValueError
np_append_1(a, b) ==
    IF a.shape[1] = b.shape[1] /\ a.shape[3] = b.shape[3] /\ a.shape[4] = b.shape[4]
    THEN [ok |-> TRUE,
          t  |-> [shape |-> [a.shape EXCEPT ![2] = a.shape[2] + b.shape[2]],
                  rows  |-> [i \in 1..a.shape[1] |-> a.rows[i] \o b.rows[i]]]]
    ELSE [ok |-> FALSE, t |-> NoTensor]

\* np.append(a, b, 0): the other three axes must agree, else ValueError
np_append_0(a, b) ==
    IF a.shape[2] = b.shape[2] /\ a.shape[3] = b.shape[3] /\ a.shape[4] = b.shape[4]
    THEN [ok |-> TRUE,
          t  |-> [shape |-> [a.shape EXCEPT ![1] = a.shape[1] + b.shape[1]],
                  rows  |-> a.rows \o b.rows]]
    ELSE [ok |-> FALSE, t |-> NoTensor]

RECURSIVE MergeTest(_, _, _)
\* for s in range(args.n_ses): merged_test = np.append(merged_test, whitened_test[s], 1)
MergeTest(a, w_test, acc) ==
    IF ~acc.ok \/ acc.s > a.n_ses THEN acc
    ELSE IF acc.s = 1
         THEN MergeTest(a, w_test, [ok |-> TRUE, s |-> 2, t |-> w_test[1]])
         ELSE MergeTest(a, w_test,
                With(np_append_1(acc.t, w_test[acc.s]), LAMBDA ap :
                     [ok |-> ap.ok, s |-> acc.s + 1, t |-> ap.t]))

RECURSIVE MergeTrain(_, _, _, _)
\* for s in range(args.n_ses): white_data and img_cond grow along axis 0
MergeTrain(a, w_train, conds, acc) ==
    IF ~acc.ok \/ acc.s > a.n_ses THEN acc
    ELSE IF acc.s = 1
         THEN MergeTrain(a, w_train, conds,
                  [ok |-> TRUE, s |-> 2, t |-> w_train[1], img_cond |-> conds[1]])
         ELSE MergeTrain(a, w_train, conds,
                With(np_append_0(acc.t, w_train[acc.s]), LAMBDA ap :
                     [ok |-> ap.ok, s |-> acc.s + 1, t |-> ap.t,
                      img_cond |-> acc.img_cond \o conds[acc.s]]))

\* merged[:, idx]
TakeAxis1(t, idx) ==
    [shape |-> [t.shape EXCEPT ![2] = Len(idx)],
     rows  |-> [i \in 1..t.shape[1] |-> Take(t.rows[i], idx)]]

\* for r in range(len(idx)): ordered_data is white_data[idx[0]], then grows by
\* np.append(ordered_data, white_data[idx[r]], 0); with no index it keeps the
\* value of the previous condition (or stays unassigned)
OrderedData(white_data, idx, previous) ==
    IF Len(idx) = 0 THEN previous
    ELSE [set |-> TRUE, rows |-> Flatten(Take(white_data.rows, idx))]

\* idx = np.where(img_cond == i+1)[0] for row i (the first row is i = 1 here)
RowIndices(img_cond, i) == np_where_eq(img_cond, i)

RECURSIVE OrderRows(_, _, _, _)
\* for i in range(len(np.unique(img_cond))): merged_train[i] = ordered_data
OrderRows(white_data, img_cond, nrep, acc) ==
    IF acc.err # "none" \/ Len(acc.rows) >= Cardinality(Range(img_cond)) THEN acc
    ELSE With(OrderedData(white_data, RowIndices(img_cond, Len(acc.rows) + 1),
                          acc.ordered_data), LAMBDA od :
         IF ~od.set THEN [acc EXCEPT !.err = "UnboundLocalError"]
         ELSE With(AssignRow(nrep, od.rows), LAMBDA asg :
              IF ~asg.ok THEN [acc EXCEPT !.err = "ValueError"]
              ELSE OrderRows(white_data, img_cond, nrep,
                       [err |-> "none", rows |-> Append(acc.rows, asg.row),
                        ordered_data |-> od])))

Unwritten == [written |-> FALSE, data |-> NoTensor]

\* np.save(path, {'preprocessed_eeg_data': t, 'ch_names': .., 'times': ..})
np_save(t) == [written |-> TRUE, data |-> t]

\* merged_train filled row by row from white_data and img_cond, then shuffled
\* along the repetition axis and saved
SaveTrainMerged(mt, x, failed) ==
    With(OrderRows(mt.t, mt.img_cond, mt.t.shape[2] * 2,
                   [err |-> "none", rows |-> <<>>,
                    ordered_data |-> [set |-> FALSE, rows |-> <<>>]]), LAMBDA ord :
    IF ord.err # "none" THEN [failed EXCEPT !.err = ord.err]
    ELSE With(shuffle([k \in 1..(mt.t.shape[2] * 2) |-> k], x), LAMBDA sh :
         [failed EXCEPT
            !.err = "none",
            !.rng = sh.rng,
            !.train_file = np_save(TakeAxis1(
                [shape |-> <<Cardinality(Range(mt.img_cond)), mt.t.shape[2] * 2,
                             mt.t.shape[3], mt.t.shape[4]>>,
                 rows |-> ord.rows], sh.out)),
            !.perms = Append(failed.perms, sh.out)]))

\* the training half of save_prepr, entered with the test file on disk
SaveTrain(a, w_train, conds, x, testf, testperm) ==
    With(MergeTrain(a, w_train, conds,
                    [ok |-> TRUE, s |-> 1, t |-> NoTensor, img_cond |-> <<>>]),
         LAMBDA mt :
         IF ~mt.ok
         THEN [err |-> "ValueError", rng |-> x, test_file |-> testf,
               train_file |-> Unwritten, perms |-> <<testperm>>]
         ELSE SaveTrainMerged(mt, x,
                  [err |-> "ValueError", rng |-> x, test_file |-> testf,
                   train_file |-> Unwritten, perms |-> <<testperm>>]))

\* save_prepr(args, whitened_test, whitened_train, img_conditions_train, ..)
save_prepr(a, w_test, w_train, conds, x) ==
    With(MergeTest(a, w_test, [ok |-> TRUE, s |-> 1, t |-> NoTensor]), LAMBDA mt :
    IF ~mt.ok
    THEN [err |-> "ValueError", rng |-> x, test_file |-> Unwritten,
          train_file |-> Unwritten, perms |-> <<>>]
    ELSE With(shuffle([k \in 1..mt.t.shape[2] |-> k], x), LAMBDA sh :
              SaveTrain(a, w_train, conds, sh.rng,
                        np_save(TakeAxis1(mt.t, sh.out)), sh.out)))

(* ----------------------------- the inputs ------------------------------ *)
Rates == {500, 1000, 2000}
Entropy == {7, 11}

Reverse(q) == [i \in 1..Len(q) |-> q[Len(q) + 1 - i]]

\* round k of a session in which marker m is shown counts[m] times: every
\* marker with at least k presentations, highest marker first; the target
\* trials follow the first round
Round(prof, k) ==
    Reverse(SortSet({m \in DOMAIN prof.counts : prof.counts[m] >= k}))
    \o (IF k = 1 THEN [j \in 1..prof.targets |-> TargetMarker] ELSE <<>>)

\* the marker stream of the session
Stim(prof) == Flatten([k \in 1..(MaxRepTest + MaxExtra) |-> Round(prof, k)])

Profile(S, c, n) ==
    [counts |-> [m \in 1..3 |-> IF m \in S THEN c ELSE 0], targets |-> n]

TestProfiles ==
    { Profile({1, 2}, MaxRepTest, 0),
      Profile({1}, MaxRepTest, 1),
      [counts |-> <<MaxRepTest + MaxExtra, MaxRepTest, 0>>, targets |-> 1],
      [counts |-> <<15, MaxRepTest, 0>>, targets |-> 0],
      [counts |-> <<1, MaxRepTest, 0>>, targets |-> 0],
      Profile({}, 0, 0) }

TrainSets == { {1, 2}, {1, 2, 3}, {1, 3}, {3}, {} }
TrainCounts == { 1, MaxRepTrain, MaxRepTrain + MaxExtra }

DefaultTest == Profile({1}, MaxRepTest, 1)
DefaultTrain == Profile({1, 2}, MaxRepTrain, 1)

Recording(prof, sfreq) == [sfreq |-> sfreq, stim |-> Stim(prof)]

\* a candidate whitening matrix per mvnn_dim and session: symmetric,
\* channels x channels
Oracle(v) ==
    [d \in {"time", "epochs"} |-> [s \in 1..MaxSes |->
        [k \in 1..NCh |-> [j \in 1..NCh |->
            IF v = 1 THEN (IF k = j THEN 1 + s ELSE 1)
            ELSE (IF d = "time" THEN k + j ELSE k * j + s)]]]]

\* inputs that vary the test recordings, the training recordings, the rates
InputsTest ==
    { [n_ses |-> n, sfreq |-> 1000, mvnn_dim |-> "time", oracle |-> Oracle(1),
       test |-> [s \in 1..n |-> Recording(tp[s], 1000)],
       training |-> [s \in 1..n |-> Recording(DefaultTrain, 1000)]] :
      n \in 1..MaxSes, tp \in [1..MaxSes -> TestProfiles] }
\* (a training session shows a target trial when it has an odd number of
\* conditions, so that sessions with and without targets both occur)
InputsTrain ==
    { [n_ses |-> n, sfreq |-> 1000, mvnn_dim |-> "epochs", oracle |-> Oracle(2),
       test |-> [s \in 1..n |-> Recording(DefaultTest, 1000)],
       training |-> [s \in 1..n |->
                       Recording(Profile(ts[s], c, Cardinality(ts[s]) % 2), 1000)]] :
      n \in 1..MaxSes, ts \in [1..MaxSes -> TrainSets], c \in TrainCounts }
InputsRate ==
    { [n_ses |-> n, sfreq |-> target, mvnn_dim |-> d, oracle |-> Oracle(v),
       test |-> [s \in 1..n |-> Recording(DefaultTest, native[s])],
       training |-> [s \in 1..n |-> Recording(DefaultTrain, native[s])]] :
      n \in 1..MaxSes, native \in [1..MaxSes -> Rates], target \in Rates,
      d \in {"time", "epochs"}, v \in {1, 2} }

(* --------------------------- the state machine ------------------------- *)
\* the state before the pipeline starts: the recordings and options are one
\* of inputs, the generator of each run is in the state the process gave it
InitWith(inputs, generators) ==
    /\ \E in \in inputs :
          /\ args = [n_ses |-> in.n_ses, sfreq |-> in.sfreq,
                     mvnn_dim |-> in.mvnn_dim]
          /\ raw = [test |-> in.test, training |-> in.training]
          /\ sigma_oracle = in.oracle
    /\ rng \in generators
    /\ pc = [r \in Runs |-> "start"]
    /\ err = [r \in Runs |-> [at |-> "none", kind |-> "none"]]
    /\ epoched_test = [r \in Runs |-> <<>>]
    /\ img_conditions_test = [r \in Runs |-> <<>>]
    /\ epoched_train = [r \in Runs |-> <<>>]
    /\ img_conditions_train = [r \in Runs |-> <<>>]
    /\ whitened_test = [r \in Runs |-> <<>>]
    /\ whitened_train = [r \in Runs |-> <<>>]
    /\ test_file = [r \in Runs |-> Unwritten]
    /\ train_file = [r \in Runs |-> Unwritten]
    /\ resampled = [r \in Runs |-> [test |-> <<>>, training |-> <<>>]]
    /\ choices = [r \in Runs |-> [test |-> <<>>, training |-> <<>>, save |-> <<>>]]

\* the pipeline calls epoching('test'), epoching('training'), mvnn and
\* save_prepr in this order; an exception ends the run
StageAfter(stage) ==
    CASE stage = "start" -> "tested"
      [] stage = "tested" -> "trained"
      [] stage = "trained" -> "whitened"
      [] stage = "whitened" -> "done"

\* what the run keeps of a call res of epoching(args, 'test')
EpochingTestReturn(r, res) ==
    /\ rng' = [rng EXCEPT ![r] = res.rng]
    /\ resampled' = [resampled EXCEPT ![r].test = res.resampled]
    /\ choices' = [choices EXCEPT ![r].test = res.picks]
    /\ IF res.err = "none"
       THEN /\ epoched_test' = [epoched_test EXCEPT ![r] = res.epoched_data]
            /\ img_conditions_test' =
                  [img_conditions_test EXCEPT ![r] = res.img_conditions]
            /\ pc' = [pc EXCEPT ![r] = StageAfter(pc[r])]
            /\ err' = err
       ELSE /\ pc' = [pc EXCEPT ![r] = "failed"]
            /\ err' = [err EXCEPT ![r] = [at |-> "epoching_test", kind |-> res.err]]
            /\ UNCHANGED <<epoched_test, img_conditions_test>>

\* epoched_test, _, ch_names, times = epoching(args, 'test')
EpochingTest(r) ==
    /\ pc[r] = "start"
    /\ EpochingTestReturn(r, epoching(args, "test", raw.test, rng[r]))
    /\ UNCHANGED <<args, raw, sigma_oracle, epoched_train, img_conditions_train,
                   whitened_test, whitened_train, test_file, train_file>>

\* what the run keeps of a call res of epoching(args, 'training')
EpochingTrainReturn(r, res) ==
    /\ rng' = [rng EXCEPT ![r] = res.rng]
    /\ resampled' = [resampled EXCEPT ![r].training = res.resampled]
    /\ choices' = [choices EXCEPT ![r].training = res.picks]
    /\ IF res.err = "none"
       THEN /\ epoched_train' = [epoched_train EXCEPT ![r] = res.epoched_data]
            /\ img_conditions_train' =
                  [img_conditions_train EXCEPT ![r] = res.img_conditions]
            /\ pc' = [pc EXCEPT ![r] = StageAfter(pc[r])]
            /\ err' = err
       ELSE /\ pc' = [pc EXCEPT ![r] = "failed"]
            /\ err' = [err EXCEPT ![r] =
                          [at |-> "epoching_training", kind |-> res.err]]
            /\ UNCHANGED <<epoched_train, img_conditions_train>>

\* epoched_train, img_conditions_train, _, _ = epoching(args, 'training')
EpochingTrain(r) ==
    /\ pc[r] = "tested"
    /\ EpochingTrainReturn(r, epoching(args, "training", raw.training, rng[r]))
    /\ UNCHANGED <<args, raw, sigma_oracle, epoched_test, img_conditions_test,
                   whitened_test, whitened_train, test_file, train_file>>

MvnnReturn(r, res) ==
    /\ whitened_test' = [whitened_test EXCEPT ![r] = res.whitened_test]
    /\ whitened_train' = [whitened_train EXCEPT ![r] = res.whitened_train]

\* whitened_test, whitened_train = mvnn(args, epoched_test, epoched_train)
Mvnn(r) ==
    /\ pc[r] = "trained"
    /\ MvnnReturn(r, mvnn(args, sigma_oracle, epoched_test[r], epoched_train[r]))
    /\ pc' = [pc EXCEPT ![r] = StageAfter(pc[r])]
    /\ UNCHANGED <<args, raw, sigma_oracle, rng, err, epoched_test,
                   img_conditions_test, epoched_train, img_conditions_train,
                   test_file, train_file, resampled, choices>>

\* what a call res of save_prepr leaves behind
SavePreprReturn(r, res) ==
    /\ rng' = [rng EXCEPT ![r] = res.rng]
    /\ test_file' = [test_file EXCEPT ![r] = res.test_file]
    /\ train_file' = [train_file EXCEPT ![r] = res.train_file]
    /\ choices' = [choices EXCEPT ![r].save = res.perms]
    /\ IF res.err = "none"
       THEN /\ pc' = [pc EXCEPT ![r] = StageAfter(pc[r])]
            /\ err' = err
       ELSE /\ pc' = [pc EXCEPT ![r] = "failed"]
            /\ err' = [err EXCEPT ![r] = [at |-> "save_prepr", kind |-> res.err]]

\* save_prepr(args, whitened_test, whitened_train, img_conditions_train, ..)
SavePrepr(r) ==
    /\ pc[r] = "whitened"
    /\ SavePreprReturn(r, save_prepr(args, whitened_test[r], whitened_train[r],
                                     img_conditions_train[r], rng[r]))
    /\ UNCHANGED <<args, raw, sigma_oracle, epoched_test, img_conditions_test,
                   epoched_train, img_conditions_train, whitened_test,
                   whitened_train, resampled>>

Step(r) == EpochingTest(r) \/ EpochingTrain(r) \/ Mvnn(r) \/ SavePrepr(r)

\* one execution of the pipeline (the second run never starts)
Init ==
    InitWith(InputsTest \cup InputsTrain \cup InputsRate,
             {g \in [Runs -> Entropy] : g[2] = g[1]})

Next == Step(1)

Spec == Init /\ [][Next]_vars

\* two executions over the same recordings of two sessions, each from its own
\* generator state
InitBoth ==
    InitWith({in \in InputsTest \cup InputsTrain : in.n_ses = 2},
             [Runs -> Entropy])

NextBoth == \E r \in Runs : Step(r)

SpecBoth == InitBoth /\ [][NextBoth]_vars

(* ======================= the claims about the code ===================== *)
\* the epoching call for the partition has been made by run r (it has
\* returned or raised)
Called(r, part) ==
    IF part = "test" THEN pc[r] # "start"
    ELSE \/ pc[r] \in {"trained", "whitened", "done"}
         \/ pc[r] = "failed" /\ err[r].at # "epoching_test"

\* the epoching call for the partition has returned its tensors to run r
Returned(r, part) ==
    IF part = "test" THEN pc[r] \notin {"start", "failed"} \/
                          (pc[r] = "failed" /\ err[r].at # "epoching_test")
    ELSE pc[r] \in {"trained", "whitened", "done"} \/
         (pc[r] = "failed" /\ err[r].at = "save_prepr")

Epoched(r, part) == IF part = "test" THEN epoched_test[r] ELSE epoched_train[r]

Labels(r, part) ==
    IF part = "test" THEN img_conditions_test[r] ELSE img_conditions_train[r]

\* number of events of session s of the partition that carry marker m
Available(part, s, m) ==
    Cardinality({k \in DOMAIN raw[part][s].stim : raw[part][s].stim[k] = m})

\* the markers of session s of the partition other than the target marker
Shown(part, s) == Range(raw[part][s].stim) \ {TargetMarker}

\* C1: for every session, partition and condition the repetition axis of the
\* tensor returned by epoching is min(cap, epochs available for the condition)
\* long, and epoching does not raise over the rows of a session (a condition
\* with fewer epochs than the cap keeps them all).
C1_RepAxisIsMinOfCapAndAvailable ==
    \A r \in Runs : \A part \in Partitions :
        /\ ~(pc[r] = "failed" /\ err[r].kind = "ValueError"
             /\ err[r].at \in {"epoching_test", "epoching_training"})
        /\ Returned(r, part) =>
             \A s \in 1..args.n_ses : \A i \in DOMAIN Labels(r, part)[s] :
                /\ Epoched(r, part)[s].shape[2]
                     = Min(MaxRep(part), Available(part, s, Labels(r, part)[s][i]))
                /\ Len(Epoched(r, part)[s].rows[i]) = Epoched(r, part)[s].shape[2]

\* C5: for every session the labels returned by epoching are the distinct
\* markers of the session without the target marker, strictly ascending, and
\* row i of the tensor holds only epochs cut at events of the i-th label.
C5_LabelsSortedDistinctNoTarget ==
    \A r \in Runs : \A part \in Partitions :
        Returned(r, part) =>
          /\ Len(Labels(r, part)) = args.n_ses
          /\ Len(Epoched(r, part)) = args.n_ses
          /\ \A s \in 1..args.n_ses :
               LET L == Labels(r, part)[s]
                   T == Epoched(r, part)[s]
               IN /\ Range(L) = Shown(part, s)
                  /\ \A i, j \in DOMAIN L : i < j => L[i] < L[j]
                  /\ Len(T.rows) = Len(L)
                  /\ T.shape[1] = Len(L)
                  /\ \A i \in DOMAIN L : \A j \in DOMAIN T.rows[i] :
                        /\ T.rows[i][j].ev = L[i]
                        /\ T.rows[i][j].id[1] = part
                        /\ T.rows[i][j].id[2] = s
                        /\ raw[part][s].stim[T.rows[i][j].id[3]] = L[i]

\* a run holds the training tensors of a session whose marker stream has a
\* target trial and shows its markers in descending order
C5_Witness ==
    /\ Returned(1, "training")
    /\ \E s \in 1..args.n_ses :
          /\ TargetMarker \in Range(raw.training[s].stim)
          /\ Len(img_conditions_train[1][s]) >= 2
          /\ raw.training[s].stim[1] > raw.training[s].stim[2]

C8_ResampleIffNativeExceedsTarget ==
    \A r \in Runs : \A part \in Partitions :
        \A s \in DOMAIN resampled[r][part] :
            resampled[r][part][s] <=> (raw[part][s].sfreq > args.sfreq)

\* save_prepr was called by run r and went past the test file
TrainMergeEntered(r) ==
    \/ pc[r] = "done"
    \/ pc[r] = "failed" /\ err[r].at = "save_prepr" /\ test_file[r].written

\* the sessions' whitened training tensors agree on the repetition, channel
\* and time axes
TrainShapesAgree(r) ==
    \A s \in 1..args.n_ses :
        /\ whitened_train[r][s].shape[2] = whitened_train[r][1].shape[2]
        /\ whitened_train[r][s].shape[3] = whitened_train[r][1].shape[3]
        /\ whitened_train[r][s].shape[4] = whitened_train[r][1].shape[4]

\* the conditions of the training partition over all sessions
TrainConditions(r) ==
    UNION {Range(img_conditions_train[r][s]) : s \in 1..args.n_ses}

RECURSIVE SumOver(_, _)
\* the sum of f[s] for s in 1..n
SumOver(f, n) == IF n = 0 THEN 0 ELSE f[n] + SumOver(f, n - 1)

\* the repetitions session s holds for condition c before the merge
SessionReps(r, s, c) ==
    IF c \in Range(img_conditions_train[r][s])
    THEN whitened_train[r][s].shape[2] ELSE 0

\* the repetitions of the saved training tensor cut at events of condition c
MergedReps(r, c) ==
    SumOver([i \in 1..Len(train_file[r].data.rows) |->
               Cardinality({j \in DOMAIN train_file[r].data.rows[i] :
                              train_file[r].data.rows[i][j].ev = c})],
            Len(train_file[r].data.rows))

\* C2: the training merge of save_prepr completes without error for any
\* number of sessions a condition occurs in, and the merged tensor holds, for
\* every condition, as many repetitions as the sessions held together.
C2_TrainMergePreservesMass ==
    \A r \in Runs :
        (TrainMergeEntered(r) /\ TrainShapesAgree(r)) =>
            /\ pc[r] = "done"
            /\ train_file[r].written
            /\ \A c \in TrainConditions(r) :
                  MergedReps(r, c)
                    = SumOver([s \in 1..args.n_ses |-> SessionReps(r, s, c)],
                              args.n_ses)

\* C3: a run in which a step failed has written neither output file.
C3_FailedRunWritesNothing ==
    \A r \in Runs :
        pc[r] = "failed" => ~test_file[r].written /\ ~train_file[r].written

\* C10: row i of the saved training tensor holds only repetitions of the i-th
\* distinct training condition, whatever the labels (dense or with gaps).
C10_TrainRowsHoldOwnCondition ==
    \A r \in Runs :
        train_file[r].written =>
            \A i \in DOMAIN train_file[r].data.rows :
                \A j \in DOMAIN train_file[r].data.rows[i] :
                    train_file[r].data.rows[i][j].ev
                      = SortSet(TrainConditions(r))[i]

RECURSIVE ConcatAt(_, _, _, _)
\* repetition k of condition i in the session-order concatenation of the
\* whitened test tensors from session s on
ConcatAt(r, i, k, s) ==
    IF k <= whitened_test[r][s].shape[2]
    THEN whitened_test[r][s].rows[i][k]
    ELSE ConcatAt(r, i, k - whitened_test[r][s].shape[2], s + 1)

\* the repetitions of all sessions' whitened test tensors
TestReps(r) ==
    SumOver([s \in 1..args.n_ses |-> whitened_test[r][s].shape[2]], args.n_ses)

\* C9: the saved test tensor has as many repetitions as the sessions' whitened
\* test tensors together, and is their session-order concatenation along the
\* repetition axis rearranged by one permutation of the repetition indices,
\* the same for every condition.
C9_TestMergeIsPermutedConcatenation ==
    \A r \in Runs :
        test_file[r].written =>
            LET m    == test_file[r].data
                perm == choices[r].save[1]
            IN /\ m.shape[2] = TestReps(r)
               /\ m.shape[1] = whitened_test[r][1].shape[1]
               /\ Len(m.rows) = m.shape[1]
               /\ Len(perm) = TestReps(r)
               /\ Range(perm) = 1..TestReps(r)
               /\ \A i \in 1..m.shape[1] :
                     /\ Len(m.rows[i]) = TestReps(r)
                     /\ \A j \in 1..TestReps(r) :
                           m.rows[i][j] = ConcatAt(r, i, perm[j], 1)

\* a test file merged from two sessions, not in concatenation order
C9_Witness ==
    /\ test_file[1].written
    /\ args.n_ses >= 2
    /\ test_file[1].data.shape[1] >= 2
    /\ \E j \in DOMAIN choices[1].save[1] : choices[1].save[1][j] # j

RECURSIVE ChannelSum(_, _, _, _)
\* sum over k <= n of x[k][t] * W[k][j], for jt = <<j, t>>
ChannelSum(x, W, jt, n) ==
    IF n = 0 THEN 0
    ELSE x[n][jt[2]] * W[n][jt[1]] + ChannelSum(x, W, jt, n - 1)

\* tensor out has the axes of tensor in and is in with W applied to the
\* channel axis of every epoch
WhitenedBy(in, out, W) ==
    /\ out.shape = in.shape
    /\ Len(out.rows) = Len(in.rows)
    /\ \A i \in DOMAIN in.rows :
          /\ Len(out.rows[i]) = Len(in.rows[i])
          /\ \A j \in DOMAIN in.rows[i] :
                LET x == in.rows[i][j].x
                    y == out.rows[i][j].x
                IN /\ Len(y) = Len(x)
                   /\ \A c \in DOMAIN x :
                         /\ Len(y[c]) = Len(x[c])
                         /\ \A t \in DOMAIN x[c] :
                               y[c][t] = ChannelSum(x, W, <<c, t>>, Len(x))

\* the whitened tensors of run r are its epoched tensors whitened, session by
\* session, by the matrix of the session
WhitenedFromEpoched(r) ==
    /\ Len(whitened_test[r]) = args.n_ses
    /\ Len(whitened_train[r]) = args.n_ses
    /\ \A s \in 1..args.n_ses :
          /\ WhitenedBy(epoched_test[r][s], whitened_test[r][s],
                        sigma_oracle[args.mvnn_dim][s])
          /\ WhitenedBy(epoched_train[r][s], whitened_train[r][s],
                        sigma_oracle[args.mvnn_dim][s])

\* C6: mvnn returns, for every session, a test and a training tensor with the
\* axes of its inputs, both the inputs with the one whitening matrix of the
\* session applied to the channel axis; the inputs are left as they were.
C6_MvnnWhitensBothWithOneMatrix ==
    [][\A r \in Runs :
          (pc[r] = "trained" /\ pc'[r] = "whitened") =>
              /\ epoched_test'[r] = epoched_test[r]
              /\ epoched_train'[r] = epoched_train[r]
              /\ WhitenedFromEpoched(r)']_vars

\* whitened tensors of two sessions, some epoch of which was changed
C6_Witness ==
    /\ pc[1] = "whitened"
    /\ args.n_ses >= 2
    /\ \E s \in 1..args.n_ses :
          /\ epoched_test[1][s].shape[4] >= 3
          /\ whitened_test[1][s].rows[1][1].x # epoched_test[1][s].rows[1][1].x
          /\ whitened_train[1][s].rows[1][1].x # epoched_train[1][s].rows[1][1].x

\* save_prepr has been called by run r
SaveCalled(r) == pc[r] = "done" \/ (pc[r] = "failed" /\ err[r].at = "save_prepr")

\* C4: two runs over the same recordings make the same subsampling choices in
\* epoching (test, then training) and draw the same permutations in
\* save_prepr, whatever state the generator was in when each run started.
C4_RunsMakeSameChoices ==
    /\ (Called(1, "test") /\ Called(2, "test"))
          => choices[1].test = choices[2].test
    /\ (Called(1, "training") /\ Called(2, "training"))
          => choices[1].training = choices[2].training
    /\ (SaveCalled(1) /\ SaveCalled(2))
          => choices[1].save = choices[2].save

\* both runs wrote both files, a session had more epochs of a condition than
\* the cap, and the permutations drawn are not the identity
C4_Witness ==
    /\ pc[1] = "done" /\ pc[2] = "done"
    /\ \E s \in 1..args.n_ses : \E m \in Shown("test", s) :
          Available("test", s, m) > MaxRepTest
    /\ Len(choices[1].save) = 2
    /\ \E j \in DOMAIN choices[2].save[1] : choices[2].save[1][j] # j
    /\ \E j \in DOMAIN choices[2].save[2] : choices[2].save[2][j] # j

====
